---- MODULE Spec2Model ----
(***************************************************************************)
(* Model of the torchin weight-export tools:                               *)
(*   pack_qwen_weights.py        save_tensor_binary, main                  *)
(*   pack_qwen_weights_libtorch.py  save_tensor_for_libtorch, main         *)
(*   check_binary_format.py      check_binary, main                        *)
(*   tools/convert_hf_to_pt.py   the module as a whole                     *)
(*   test.py                     the reference attention computation       *)
(* Files are byte sequences; Python integers are arbitrary-precision       *)
(* (sign + base-256 magnitude); float32 values are their bit fields.       *)
(***************************************************************************)
EXTENDS Integers, Sequences, FiniteSets, TLC

VARIABLES
    tensor,     \* container run: the tensor handed to the writer
    forged,     \* container run: description of a file found on disk
    file,       \* container run: the bytes of the one file (NoFile if absent)
    rd,         \* container run: outcome of check_binary on file
    vr,         \* outcome of the verification read of main (both runs)
    script,     \* export run: which tool runs ("pack", "libtorch", "convert")
    numLayers,  \* export run: model.config.num_hidden_layers
    state,      \* export run: model.state_dict(), key -> tensor
    fs,         \* export run: the file system, path -> bytes
    pc,         \* export run: position of main
    i,          \* export run: the layer loop index
    err,        \* export run: the exception that ended main ("" if none)
    report,     \* export run: the offset table printed for layer 0
    tokens,     \* export run: the token ids of the encoded prompt
    chk,        \* export run: outcome of check_binary_format.main
    attn        \* attention run: the configuration, the tensors and position of test.py

ioVars == <<tensor, forged, file, rd, vr>>
exVars == <<script, numLayers, state, fs, pc, i, err, report, tokens, chk>>
vars == <<tensor, forged, file, rd, vr, script, numLayers, state, fs, pc, i, err,
          report, tokens, chk, attn>>

----------------------------------------------------------------------------
(* Bounds of the model *)

MaxRank == 2        \* tensors and forged headers have rank <= MaxRank
MaxDim == 3         \* dimensions of the tensors of the container run
MaxNumel == 4       \* element count of the tensors of the container run
MaxFileElems == 4   \* elements held by a forged file before it is cut
MaxLayers == 2      \* num_hidden_layers of the exported model
MaxSeq == 2         \* token count of the encoded prompt
Vocab == 2          \* vocab_size of the exported model
Hidden == 2         \* hidden_size
QDim == 2           \* num_attention_heads * head_dim
KVDim == 1          \* num_key_value_heads * head_dim
Inter == 2          \* intermediate_size
HeadDim == 1        \* head_dim
MaxSeqLen == 3      \* attention run: tokens in the sequence
MaxHeads == 4       \* attention run: query heads of the small configurations
AttnDim == 2        \* attention run: head dimension (128 in test.py)

\* the head counts test.py is written for
TestHq == 16
TestHkv == 8

----------------------------------------------------------------------------
(* Python integers: arbitrary precision *)

Min(a, b) == IF a < b THEN a ELSE b

RECURSIVE StripZeros(_)
StripZeros(d) ==
    IF d = <<>> THEN <<>>
    ELSE IF d[Len(d)] = 0 THEN StripZeros(SubSeq(d, 1, Len(d) - 1))
    ELSE d

RECURSIVE MagOfNat(_)
MagOfNat(n) == IF n = 0 THEN <<>> ELSE <<n % 256>> \o MagOfNat(n \div 256)

RECURSIVE NatOfMag(_)
NatOfMag(m) == IF m = <<>> THEN 0 ELSE Head(m) + 256 * NatOfMag(Tail(m))

PyInt(n) == [neg |-> n < 0, mag |-> MagOfNat(IF n < 0 THEN 0 - n ELSE n)]

RECURSIVE AddMag(_, _, _)
AddMag(a, b, c) ==
    IF a = <<>> /\ b = <<>> THEN (IF c = 0 THEN <<>> ELSE <<c>>)
    ELSE LET x == IF a = <<>> THEN 0 ELSE Head(a)
             y == IF b = <<>> THEN 0 ELSE Head(b)
             s == x + y + c
         IN <<s % 256>> \o AddMag(IF a = <<>> THEN <<>> ELSE Tail(a),
                                  IF b = <<>> THEN <<>> ELSE Tail(b),
                                  s \div 256)

RECURSIVE MulDigit(_, _, _)
MulDigit(a, d, c) ==
    IF a = <<>> THEN (IF c = 0 THEN <<>> ELSE <<c>>)
    ELSE LET s == Head(a) * d + c
         IN <<s % 256>> \o MulDigit(Tail(a), d, s \div 256)

RECURSIVE MulMag(_, _)
MulMag(a, b) ==
    IF a = <<>> \/ b = <<>> THEN <<>>
    ELSE StripZeros(AddMag(MulDigit(a, Head(b), 0),
                           <<0>> \o MulMag(a, Tail(b)), 0))

\* x * y on Python integers: never overflows
PyMul(x, y) ==
    LET m == MulMag(x.mag, y.mag)
    IN [neg |-> (m # <<>>) /\ (x.neg # y.neg), mag |-> m]

\* the magnitude of a Python integer is below 2^24
IsSmall(x) == Len(x.mag) <= 3

\* x > sys.maxsize (2^63 - 1): the value does not fit a C ssize_t
ExceedsSsize(x) ==
    /\ ~x.neg
    /\ \/ Len(x.mag) > 8
       \/ Len(x.mag) = 8 /\ x.mag[8] >= 128

\* x < -sys.maxsize - 1 (-2^63)
BelowSsize(x) ==
    /\ x.neg
    /\ \/ Len(x.mag) > 8
       \/ Len(x.mag) = 8 /\ x.mag[8] >= 128 /\ x.mag # <<0, 0, 0, 0, 0, 0, 0, 128>>

----------------------------------------------------------------------------
(* struct / int.to_bytes / float32 encodings *)

RECURSIVE LEBytes(_, _)
\* the n low bytes of v in two's complement, least significant first
LEBytes(v, n) == IF n = 0 THEN <<>> ELSE <<v % 256>> \o LEBytes(v \div 256, n - 1)

\* struct.pack('>q', v): the same field with the byte order reversed
Pack_q_BigEndian(v) == [k \in 1..8 |-> LEBytes(v, 8)[9 - k]]

\* struct.pack('<q', v)
Pack_q(v) == LEBytes(v, 8)

\* v.to_bytes(n, 'little') for v >= 0
ToBytesLittle(v, n) == LEBytes(v, n)

\* struct.unpack('<q', b)[0] for an 8-byte b
Unpack_q(b) ==
    IF b[8] >= 128
    THEN [neg |-> TRUE,
          mag |-> StripZeros(AddMag([k \in 1..8 |-> 255 - b[k]], <<1>>, 0))]
    ELSE [neg |-> FALSE, mag |-> StripZeros(b)]

\* a float32 is its sign, biased exponent and 23-bit fraction
F32(s, e, m) == [s |-> s, e |-> e, m |-> m]

\* the four bytes of a float32 in little-endian (host) order
F32Bytes(x) ==
    << x.m % 256,
       (x.m \div 256) % 256,
       (x.m \div 65536) + 128 * (x.e % 2),
       (x.e \div 2) + 128 * x.s >>

\* the float32 held by four little-endian bytes
F32OfBytes(b) ==
    F32(b[4] \div 128,
        (b[4] % 128) * 2 + (b[3] \div 128),
        (b[3] % 128) * 65536 + b[2] * 256 + b[1])

RECURSIVE Concat(_)
\* the concatenation of a sequence of sequences
Concat(ss) == IF ss = <<>> THEN <<>> ELSE Head(ss) \o Concat(Tail(ss))

\* np.frombuffer(bytes, dtype=np.float32) for len(bytes) a multiple of 4
FromBuffer(b) == [k \in 1..(Len(b) \div 4) |-> F32OfBytes(SubSeq(b, 4 * k - 3, 4 * k))]

\* ndarray.tobytes() of a flat float32 array
ToBytes(xs) == Concat([k \in 1..Len(xs) |-> F32Bytes(xs[k])])

----------------------------------------------------------------------------
(* Tensors: a shape and nested rows (a rank-0 tensor holds one float) *)

RECURSIVE Prod(_)
Prod(shape) == IF shape = <<>> THEN 1 ELSE Head(shape) * Prod(Tail(shape))

RECURSIVE FlattenData(_, _)
\* the elements of nested rows of depth rank, last axis fastest
FlattenData(data, rank) ==
    IF rank = 0 THEN <<data>>
    ELSE Concat([k \in 1..Len(data) |-> FlattenData(data[k], rank - 1)])

\* tensor.contiguous() / tensor.flatten(): the elements in row-major order
Flatten(t) == FlattenData(t.data, Len(t.shape))

Numel(t) == Prod(t.shape)

\* a rank-1 tensor over the elements xs
Flat(xs) == [shape |-> <<Len(xs)>>, data |-> xs]

----------------------------------------------------------------------------
(* The two writers *)

\* a writer whose rank field is 4 bytes wide instead of 8
SaveTensorBinaryNdim4(t) ==
    LEBytes(Len(t.shape), 4)
        \o Concat([k \in 1..Len(t.shape) |-> Pack_q(t.shape[k])])
        \o ToBytes(Flatten(t))

\* save_tensor_binary: the bytes it writes, in the order of its f.write calls
SaveTensorBinary(t) ==
    Pack_q(Len(t.shape))
        \o Concat([k \in 1..Len(t.shape) |-> Pack_q(t.shape[k])])
        \o ToBytes(Flatten(t))

\* save_tensor_for_libtorch: the bytes it writes
SaveTensorForLibtorch(t) ==
    ToBytesLittle(Len(t.shape), 4)
        \o Concat([k \in 1..Len(t.shape) |-> ToBytesLittle(t.shape[k], 8)])
        \o ToBytes(Flatten(t))

----------------------------------------------------------------------------
(* Reading a file *)

NoFile == <<-1>>    \* no file at the path (a byte is never negative)

\* a read that clamps any request to the bytes that remain
FileReadClamped(bytes, pos, n, alloc_ok) ==
    IF n.neg THEN [exc |-> "ValueError", data |-> <<>>]
    ELSE LET want == IF IsSmall(n) THEN NatOfMag(n.mag) ELSE Len(bytes)
         IN [exc |-> "",
             data |-> SubSeq(bytes, pos + 1, Min(pos + want, Len(bytes)))]

\* f.read(n) of a buffered binary file at position pos, n a Python integer.
\* n < -1 raises ValueError; n outside the ssize_t range raises OverflowError; a request
\* larger than what can be allocated raises MemoryError (alloc_ok says whether
\* a request of 16 MiB or more is granted); otherwise the bytes that remain,
\* up to n of them.
FileRead(bytes, pos, n, alloc_ok) ==
    IF n.neg
    THEN IF n.mag = <<1>>
         THEN [exc |-> "", data |-> SubSeq(bytes, pos + 1, Len(bytes))]
         ELSE IF BelowSsize(n) THEN [exc |-> "OverflowError", data |-> <<>>]
         ELSE [exc |-> "ValueError", data |-> <<>>]
    ELSE IF ExceedsSsize(n) THEN [exc |-> "OverflowError", data |-> <<>>]
    ELSE IF ~IsSmall(n) /\ ~alloc_ok THEN [exc |-> "MemoryError", data |-> <<>>]
    ELSE LET want == IF IsSmall(n) THEN NatOfMag(n.mag) ELSE Len(bytes)
         IN [exc |-> "",
             data |-> SubSeq(bytes, pos + 1, Min(pos + want, Len(bytes)))]

\* range(ndim) is exhausted after k iterations
RangeDone(k, ndim) == ndim.neg \/ (IsSmall(ndim) /\ NatOfMag(ndim.mag) <= k)

RECURSIVE ReadShape(_, _, _, _)
\* the loop that reads the dimensions: one f.read(8) per iteration of
\* range(ndim), stopping at the first read that returns fewer than 8 bytes
ReadShape(bytes, pos, ndim, acc) ==
    IF RangeDone(Len(acc), ndim)
    THEN [short |-> FALSE, shape |-> acc, pos |-> pos]
    ELSE IF Len(bytes) - pos < 8
    THEN [short |-> TRUE, shape |-> acc, pos |-> Len(bytes)]
    ELSE ReadShape(bytes, pos + 8, ndim,
                   Append(acc, Unpack_q(SubSeq(bytes, pos + 1, pos + 8))))

RECURSIVE PyProduct(_)
\* numel = 1; for s in shape: numel *= s
PyProduct(shape) ==
    IF shape = <<>> THEN PyInt(1)
    ELSE PyMul(shape[Len(shape)], PyProduct(SubSeq(shape, 1, Len(shape) - 1)))

\* what a reader reports: ok, the message or exception, the values it
\* parsed, and the file position it reached
Outcome(ok, why, ndim, shape, numel, data, pos) ==
    [ok |-> ok, why |-> why, ndim |-> ndim, shape |-> shape,
     numel |-> numel, data |-> data, pos |-> pos]

Rejected(why, pos) == Outcome(FALSE, why, PyInt(0), <<>>, PyInt(0), <<>>, pos)

NotRun == Rejected("not run", 0)

\* check_binary(path): True with the parsed tensor, or False with the message
CheckBinary(bytes, alloc_ok) ==
    IF bytes = NoFile THEN Rejected("FILE NOT FOUND", 0)
    ELSE IF Len(bytes) < 8 THEN Rejected("Can't read ndim", Len(bytes))
    ELSE LET ndim == Unpack_q(SubSeq(bytes, 1, 8))
             sh == ReadShape(bytes, 8, ndim, <<>>)
             numel == PyProduct(sh.shape)
             got == FileRead(bytes, sh.pos, PyMul(numel, PyInt(4)), alloc_ok)
         IN IF sh.short THEN Rejected("Can't read dim", sh.pos)
            ELSE IF got.exc # "" THEN Rejected(got.exc, sh.pos)
            ELSE IF PyInt(Len(got.data)) # PyMul(numel, PyInt(4))
            THEN Rejected("Data size mismatch", sh.pos + Len(got.data))
            ELSE Outcome(TRUE, "", ndim, sh.shape, numel,
                         FromBuffer(got.data), sh.pos + Len(got.data))

\* the verification read at the end of main of pack_qwen_weights.py: no
\* length is checked; struct.unpack raises on a short field and
\* np.frombuffer raises on a byte count that is no multiple of 4
VerifyRead(bytes, alloc_ok) ==
    IF bytes = NoFile THEN Rejected("FileNotFoundError", 0)
    ELSE IF Len(bytes) < 8 THEN Rejected("struct.error", Len(bytes))
    ELSE LET ndim == Unpack_q(SubSeq(bytes, 1, 8))
             sh == ReadShape(bytes, 8, ndim, <<>>)
             numel == PyProduct(sh.shape)
             got == FileRead(bytes, sh.pos, PyMul(numel, PyInt(4)), alloc_ok)
         IN IF sh.short THEN Rejected("struct.error", sh.pos)
            ELSE IF got.exc # "" THEN Rejected(got.exc, sh.pos)
            ELSE IF Len(got.data) % 4 # 0
            THEN Rejected("ValueError", sh.pos + Len(got.data))
            ELSE Outcome(TRUE, "", ndim, sh.shape, numel,
                         FromBuffer(got.data), sh.pos + Len(got.data))

----------------------------------------------------------------------------
(* Inputs of the container run *)

\* float32 samples: 0.0, -1.5 and a NaN with a payload
FloatSamples == {F32(0, 0, 0), F32(1, 127, 4194304), F32(0, 255, 4194305)}

Shapes ==
    {s \in UNION {[1..r -> 1..MaxDim] : r \in 0..MaxRank} : Prod(s) <= MaxNumel}

RECURSIVE DataOf(_)
DataOf(shape) ==
    IF shape = <<>> THEN FloatSamples
    ELSE [1..Head(shape) -> DataOf(Tail(shape))]

NoTensor == [shape |-> <<-1>>, data |-> <<>>]

\* a header field of a forged file: the 64-bit value v * 256^sh
Field(v, sh) == [v |-> v, sh |-> sh]
FieldBytes(f) == [k \in 1..f.sh |-> 0] \o LEBytes(f.v, 8 - f.sh)

RankFields == {Field(r, 0) : r \in -1..MaxRank}

\* small dimensions of either sign, and 2^62, 2^32, 2^31
DimFields == {Field(d, 0) : d \in -2..2} \cup {Field(64, 7), Field(1, 4), Field(128, 3)}

\* the k-th element of a forged file
ForgedElem(k) ==
    IF k % 3 = 0 THEN F32(0, 0, 0)
    ELSE IF k % 3 = 1 THEN F32(1, 127, 4194304) ELSE F32(0, 255, 4194305)

\* a forged file: a header of any rank field and dimension fields, then
\* MaxFileElems elements, cut after `keep` bytes
ForgedFull(r, d) ==
    FieldBytes(r) \o Concat([k \in 1..Len(d) |-> FieldBytes(d[k])])
        \o ToBytes([k \in 1..MaxFileElems |-> ForgedElem(k)])

\* the description of the forged file with rank field r, dimension fields d
\* and keep bytes
Forgery(r, d, keep) == [rank |-> r, dims |-> d, keep |-> keep]

ForgedBytes(g) == SubSeq(ForgedFull(g.rank, g.dims), 1, g.keep)

NoForgery == [rank |-> Field(0, 0), dims |-> <<>>, keep |-> -1]

----------------------------------------------------------------------------
(* The container run: one tensor written and read back, or one file found
   on disk and read *)

\* test.py has not run
NoAttention ==
    [pc |-> "idle", err |-> "", T |-> 1, hq |-> 1, hkv |-> 1, q |-> <<>>,
     k |-> <<>>, v |-> <<>>, scores |-> <<>>, probs |-> <<>>, context |-> <<>>,
     output |-> <<>>]

ExportIdle ==
    /\ script = "none" /\ numLayers = 0 /\ state = <<>> /\ fs = <<>>
    /\ pc = "idle" /\ i = 0 /\ err = "" /\ report = <<>> /\ tokens = <<>>
    /\ chk = <<>>

InitIO ==
    /\ \/ /\ \E s \in Shapes : \E d \in DataOf(s) : tensor = [shape |-> s, data |-> d]
          /\ forged = NoForgery
          /\ file = NoFile
       \/ /\ tensor = NoTensor
          /\ \E r \in RankFields :
               \E d \in [1..(IF r.v < 0 THEN 0 ELSE r.v) -> DimFields] :
                 \E keep \in 0..Len(ForgedFull(r, d)) :
                    forged = Forgery(r, d, keep)
          /\ file = ForgedBytes(forged)
    /\ rd = NotRun
    /\ vr = NotRun
    /\ ExportIdle
    /\ attn = NoAttention

\* save_tensor_binary(tensor, path)
IOSave ==
    /\ tensor # NoTensor
    /\ file = NoFile
    /\ file' = SaveTensorBinary(tensor)
    /\ UNCHANGED <<tensor, forged, rd, vr>>
    /\ UNCHANGED <<exVars, attn>>

\* check_binary(path)
IOCheckBinary ==
    /\ \E alloc_ok \in BOOLEAN : rd' = CheckBinary(file, alloc_ok)
    /\ UNCHANGED <<tensor, forged, file, vr>>
    /\ UNCHANGED <<exVars, attn>>

\* the verification read of main, applied to the file
IOVerifyRead ==
    /\ \E alloc_ok \in BOOLEAN : vr' = VerifyRead(file, alloc_ok)
    /\ UNCHANGED <<tensor, forged, file, rd>>
    /\ UNCHANGED <<exVars, attn>>

NextIO == IOSave \/ IOCheckBinary \/ IOVerifyRead

SpecIO == InitIO /\ [][NextIO]_vars

----------------------------------------------------------------------------
(* The exported model: model.state_dict() *)

\* a key of the state dict: the layer index (-1 for a top-level tensor) and
\* the name after the "model.layers.{i}." prefix
Key(layer, name) == <<layer, name>>

EmbedKey == Key(-1, "model.embed_tokens.weight")
NormKey == Key(-1, "model.norm.weight")

\* the list with q_norm and k_norm exchanged
LayerOrderSwapped ==
    << "input_layernorm.weight",
       "post_attention_layernorm.weight",
       "self_attn.q_proj.weight",
       "self_attn.k_proj.weight",
       "self_attn.v_proj.weight",
       "self_attn.o_proj.weight",
       "self_attn.k_norm.weight",
       "self_attn.q_norm.weight",
       "mlp.gate_proj.weight",
       "mlp.up_proj.weight",
       "mlp.down_proj.weight" >>

\* the list `tensors` of the layer loop, in its order
LayerOrder ==
    << "input_layernorm.weight",
       "post_attention_layernorm.weight",
       "self_attn.q_proj.weight",
       "self_attn.k_proj.weight",
       "self_attn.v_proj.weight",
       "self_attn.o_proj.weight",
       "self_attn.q_norm.weight",
       "self_attn.k_norm.weight",
       "mlp.gate_proj.weight",
       "mlp.up_proj.weight",
       "mlp.down_proj.weight" >>

LayerNames == {LayerOrder[k] : k \in 1..Len(LayerOrder)}

\* the shape of each named tensor of the pretrained model
ShapeOf(name) ==
    CASE name = "model.embed_tokens.weight" -> <<Vocab, Hidden>>
      [] name = "model.norm.weight" -> <<Hidden>>
      [] name = "input_layernorm.weight" -> <<Hidden>>
      [] name = "post_attention_layernorm.weight" -> <<Hidden>>
      [] name = "self_attn.q_proj.weight" -> <<QDim, Hidden>>
      [] name = "self_attn.k_proj.weight" -> <<KVDim, Hidden>>
      [] name = "self_attn.v_proj.weight" -> <<KVDim, Hidden>>
      [] name = "self_attn.o_proj.weight" -> <<Hidden, QDim>>
      [] name = "self_attn.q_norm.weight" -> <<HeadDim>>
      [] name = "self_attn.k_norm.weight" -> <<HeadDim>>
      [] name = "mlp.gate_proj.weight" -> <<Inter, Hidden>>
      [] name = "mlp.up_proj.weight" -> <<Inter, Hidden>>
      [] name = "mlp.down_proj.weight" -> <<Hidden, Inter>>

\* a number naming each tensor name, used to make every weight distinct
NameTag(name) ==
    CASE name = "model.embed_tokens.weight" -> 1
      [] name = "model.norm.weight" -> 2
      [] name = "input_layernorm.weight" -> 3
      [] name = "post_attention_layernorm.weight" -> 4
      [] name = "self_attn.q_proj.weight" -> 5
      [] name = "self_attn.k_proj.weight" -> 6
      [] name = "self_attn.v_proj.weight" -> 7
      [] name = "self_attn.o_proj.weight" -> 8
      [] name = "self_attn.q_norm.weight" -> 9
      [] name = "self_attn.k_norm.weight" -> 10
      [] name = "mlp.gate_proj.weight" -> 11
      [] name = "mlp.up_proj.weight" -> 12
      [] name = "mlp.down_proj.weight" -> 13

\* the pretrained value at row r, column c of a tensor: nonzero, and
\* different for every key and position
WeightAt(key, r, c) == F32(0, 121 + key[1], NameTag(key[2]) * 64 + r * 8 + c)

\* the pretrained tensor stored under a key
Weight(key) ==
    LET sh == ShapeOf(key[2])
    IN [shape |-> sh,
        data |-> IF Len(sh) = 1
                 THEN [c \in 1..sh[1] |-> WeightAt(key, 0, c)]
                 ELSE [r \in 1..sh[1] |-> [c \in 1..sh[2] |-> WeightAt(key, r, c)]]]

\* the keys main reads for a model of L layers
RequiredKeys(L) ==
    {EmbedKey, NormKey} \cup {Key(l, n) : l \in 0..(L - 1), n \in LayerNames}

\* the keys of per-head query/key normalization
QKNormKeys(L) ==
    {Key(l, n) : l \in 0..(L - 1),
                 n \in {"self_attn.q_norm.weight", "self_attn.k_norm.weight"}}

\* the state dicts considered: all keys present, one required key absent,
\* or the variant without query/key normalization
MissingSets(L) ==
    {{}} \cup {{key} : key \in RequiredKeys(L)} \cup {QKNormKeys(L)}

StateDict(L, missing) == [k \in RequiredKeys(L) \ missing |-> Weight(k)]

\* a checkpoint whose layers all hold the values of layer 0 (layers that
\* share their weights): every key present
TiedStateDict(L) ==
    [k \in RequiredKeys(L) |-> Weight(Key(IF k[1] > 0 THEN 0 ELSE k[1], k[2]))]

----------------------------------------------------------------------------
(* The prompt *)

RECURSIVE Log2(_)
Log2(k) == IF k <= 1 THEN 0 ELSE 1 + Log2(k \div 2)

\* tensor.float() of an integer k >= 0: the nearest float32, ties to even
IntToF32(k) ==
    IF k = 0 THEN F32(0, 0, 0)
    ELSE LET e == Log2(k)
         IN IF e <= 23 THEN F32(0, 127 + e, (k - 2^e) * 2^(23 - e))
            ELSE LET sh == e - 23
                     q == k \div 2^sh
                     r == k % 2^sh
                     half == 2^(sh - 1)
                     n == IF r > half \/ (r = half /\ q % 2 = 1) THEN q + 1 ELSE q
                 IN IF n = 2^24 THEN F32(0, 128 + e, 0)
                    ELSE F32(0, 127 + e, n - 2^23)

\* token ids the tokenizer may return
TokenIds == {0, 9707, 16777217}

\* tokenizer.encode(prompt): a token sequence
TokenSeqs == UNION {[1..n -> TokenIds] : n \in 1..MaxSeq}

\* tokens.float(): the [1, seq_len] tensor that is saved
PromptTensor(toks) ==
    [shape |-> <<1, Len(toks)>>,
     data |-> << [c \in 1..Len(toks) |-> IntToF32(toks[c])] >>]

----------------------------------------------------------------------------
(* main of pack_qwen_weights.py and of pack_qwen_weights_libtorch.py *)

Path(dir, name) == <<dir, name>>

EmbedPath == Path("output_dir", "model.embed_tokens.weight.bin")
NormPath == Path("output_dir", "model.norm.weight.bin")
\* a packed file name that leaves the index out
LayerPathNoIndex(l) == Path("output_dir", "layer_packed.bin")

\* a packed file name with the one-based index of the layer
LayerPathOneBased(l) ==
    Path("output_dir", "layer_" \o ToString(l + 1) \o "_packed.bin")

LayerPath(l) == Path("output_dir", "layer_" \o ToString(l) \o "_packed.bin")

\* prompt.bin: in output_dir for pack_qwen_weights.py, in its parent for
\* pack_qwen_weights_libtorch.py
PromptPath(sc) ==
    IF sc = "pack" THEN Path("output_dir", "prompt.bin")
    ELSE Path("output_dir.parent", "prompt.bin")

\* the writer each script calls
Writer(sc, t) ==
    IF sc = "pack" THEN SaveTensorBinary(t) ELSE SaveTensorForLibtorch(t)

\* how a write may end: -1 if open() fails, k < Len(bytes) if an f.write or
\* the flush fails after k bytes reached the file, Len(bytes) if it succeeds
WriteOutcomes(bytes) == -1..Len(bytes)

\* the file system after open(path, 'wb') and the writes that reached it
Written(f, path, bytes, keep) ==
    IF keep < 0 THEN f
    ELSE [q \in DOMAIN f \cup {path} |->
            IF q = path THEN SubSeq(bytes, 1, keep) ELSE f[q]]

FileAt(f, path) == IF path \in DOMAIN f THEN f[path] ELSE NoFile

\* a concatenation that loses its first operand
TorchCatSkipFirst(ts) == Flat(Concat([k \in 1..(Len(ts) - 1) |-> ts[k + 1].data]))

\* torch.cat of rank-1 tensors
TorchCat(ts) == Flat(Concat([k \in 1..Len(ts) |-> ts[k].data]))

\* a gathering of the layer's tensors that passes over absent keys
LayerTensorsSkipMissing(st, l) ==
    LET present == SelectSeq(LayerOrder, LAMBDA n : Key(l, n) \in DOMAIN st)
    IN [k \in 1..Len(present) |-> st[Key(l, present[k])]]

\* a gathering whose order depends on the layer: it starts l names later
LayerTensorsRotated(st, l) ==
    IF \E k \in 1..Len(LayerOrder) : Key(l, LayerOrder[k]) \notin DOMAIN st
    THEN <<>>
    ELSE [k \in 1..Len(LayerOrder) |->
            st[Key(l, LayerOrder[((k - 1 + l) % Len(LayerOrder)) + 1])]]

\* the list `tensors` of layer l: <<>> stands for the KeyError that the first
\* absent key raises
LayerTensors(st, l) ==
    IF \E k \in 1..Len(LayerOrder) : Key(l, LayerOrder[k]) \notin DOMAIN st
    THEN <<>>
    ELSE [k \in 1..Len(LayerOrder) |-> st[Key(l, LayerOrder[k])]]

\* packed = torch.cat([t.flatten().float() for t in tensors])
Pack(ts) == TorchCat([k \in 1..Len(ts) |-> Flat(Flatten(ts[k]))])

RECURSIVE Offsets(_, _, _)
\* the offset loop of the layer-0 report: offset += t.numel()
Offsets(ts, k, offset) ==
    IF k > Len(ts) THEN <<>>
    ELSE <<[numel |-> Numel(ts[k]), offset |-> offset]>>
             \o Offsets(ts, k + 1, offset + Numel(ts[k]))

\* the report printed for layer 0: packed.numel(), one row per tensor, TOTAL
OffsetReport(ts, packed) ==
    LET rows == Offsets(ts, 1, 0)
    IN [numel |-> Numel(packed), rows |-> rows,
        total |-> IF rows = <<>> THEN 0
                  ELSE rows[Len(rows)].offset + rows[Len(rows)].numel]

IOIdle ==
    /\ tensor = NoTensor /\ forged = NoForgery /\ file = NoFile
    /\ rd = NotRun /\ vr = NotRun

Init ==
    /\ IOIdle
    /\ script \in {"pack", "libtorch", "convert"}
    /\ numLayers \in 0..MaxLayers
    /\ \/ \E missing \in MissingSets(numLayers) :
            state = StateDict(numLayers, missing)
       \/ numLayers >= 2 /\ state = TiedStateDict(numLayers)
    /\ fs = <<>>
    /\ pc = IF script = "convert" THEN "convert" ELSE "embed"
    /\ i = 0
    /\ err = ""
    /\ report = <<>>
    /\ tokens = <<>>
    /\ chk = <<>>
    /\ attn = NoAttention

\* an uncaught exception ends main
Raise(e) == pc' = "failed" /\ err' = e

\* save_tensor_binary / save_tensor_for_libtorch(t, path), then continue at next
Save(t, path, next) ==
    LET bytes == Writer(script, t)
    IN \E keep \in WriteOutcomes(bytes) :
        /\ fs' = Written(fs, path, bytes, keep)
        /\ IF keep = Len(bytes) THEN pc' = next /\ err' = err ELSE Raise("IOError")

\* lines 72-74: save the embedding table
SaveEmbeddings ==
    /\ pc = "embed"
    /\ IF EmbedKey \in DOMAIN state
       THEN Save(state[EmbedKey], EmbedPath, "norm")
       ELSE Raise("KeyError") /\ fs' = fs
    /\ UNCHANGED <<script, numLayers, state, i, report, tokens, chk>>
    /\ UNCHANGED <<ioVars, attn>>

\* lines 76-78: save the final norm
SaveNorm ==
    /\ pc = "norm"
    /\ IF NormKey \in DOMAIN state
       THEN Save(state[NormKey], NormPath, "layers")
       ELSE Raise("KeyError") /\ fs' = fs
    /\ UNCHANGED <<script, numLayers, state, i, report, tokens, chk>>
    /\ UNCHANGED <<ioVars, attn>>

\* one iteration of the layer loop: gather, pack, save, report
PackLayer ==
    /\ pc = "layers"
    /\ i < numLayers
    /\ LET ts == LayerTensors(state, i)
           packed == Pack(ts)
       IN IF ts = <<>>
          THEN Raise("KeyError") /\ UNCHANGED <<fs, i, report>>
          ELSE /\ Save(packed, LayerPath(i), "layers")
               /\ i' = IF pc' = "layers" THEN i + 1 ELSE i
               /\ report' = IF pc' = "layers" /\ i = 0 /\ script = "pack"
                            THEN OffsetReport(ts, packed) ELSE report
    /\ UNCHANGED <<script, numLayers, state, tokens, chk>>
    /\ UNCHANGED <<ioVars, attn>>

\* after the loop: encode the prompt and save it
CreatePrompt ==
    /\ pc = "layers"
    /\ i = numLayers
    /\ \E toks \in TokenSeqs :
        /\ tokens' = toks
        /\ Save(PromptTensor(toks), PromptPath(script),
                IF script = "pack" THEN "verify" ELSE "done")
    /\ UNCHANGED <<script, numLayers, state, i, report, chk>>
    /\ UNCHANGED <<ioVars, attn>>

\* pack_qwen_weights.py lines 137-147: read model.norm.weight.bin back
Verify ==
    /\ pc = "verify"
    /\ \E alloc_ok \in BOOLEAN :
        /\ vr' = VerifyRead(FileAt(fs, NormPath), alloc_ok)
        /\ IF vr'.ok THEN pc' = "done" /\ err' = err ELSE Raise(vr'.why)
    /\ UNCHANGED <<tensor, forged, file, rd>>
    /\ UNCHANGED <<script, numLayers, state, fs, i, report, tokens, chk, attn>>

\* tools/convert_hf_to_pt.py: line 26 is indented with a tab inside a body
\* indented with spaces, so compiling the module raises TabError and no
\* statement of it (export_weights included) ever runs
ConvertMain ==
    /\ pc = "convert"
    /\ Raise("TabError")
    /\ UNCHANGED <<script, numLayers, state, fs, i, report, tokens, chk>>
    /\ UNCHANGED <<ioVars, attn>>

\* the files check_binary_format.main checks
CheckedFiles ==
    {EmbedPath, NormPath, LayerPath(0), LayerPath(1), Path("output_dir", "prompt.bin")}

\* check_binary_format.main, run on the output directory after main ended
CheckFormat ==
    /\ pc \in {"done", "failed"}
    /\ chk = <<>>
    /\ \E alloc_ok \in BOOLEAN :
        chk' = [q \in CheckedFiles |-> CheckBinary(FileAt(fs, q), alloc_ok).ok]
    /\ UNCHANGED <<script, numLayers, state, fs, pc, i, err, report, tokens>>
    /\ UNCHANGED <<ioVars, attn>>

Next ==
    \/ SaveEmbeddings
    \/ SaveNorm
    \/ PackLayer
    \/ CreatePrompt
    \/ Verify
    \/ ConvertMain
    \/ CheckFormat

Spec == Init /\ [][Next]_vars

----------------------------------------------------------------------------
(* Properties of the tensor container (checked under SpecIO) *)

RECURSIVE ElemAt(_, _, _)
\* the element of nested rows at row-major position k (from 0), found by
\* index arithmetic: the stride of an axis is the product of the later axes
ElemAt(data, shape, k) ==
    IF shape = <<>> THEN data
    ELSE LET stride == Prod(Tail(shape))
         IN ElemAt(data[(k \div stride) + 1], Tail(shape), k % stride)

RowMajor(t) == [k \in 1..Prod(t.shape) |-> ElemAt(t.data, t.shape, k - 1)]

\* a reader's outcome r reproduces tensor t
ReadBack(r, t) ==
    /\ r.ok
    /\ r.ndim = PyInt(Len(t.shape))
    /\ r.shape = [k \in 1..Len(t.shape) |-> PyInt(t.shape[k])]
    /\ r.numel = PyInt(Prod(t.shape))
    /\ r.data = RowMajor(t)

Written1 == tensor # NoTensor /\ file # NoFile

\* C1: a tensor written by save_tensor_binary and read back by check_binary
\* or by the verification read of main comes back with the same rank, the
\* same shape and the same elements in the same order.
C1_RoundTrip ==
    Written1 =>
        /\ rd.why \notin {"not run", "FILE NOT FOUND"} => ReadBack(rd, tensor)
        /\ vr.why \notin {"not run", "FileNotFoundError"} => ReadBack(vr, tensor)

C1_Witness ==
    /\ Written1
    /\ Len(tensor.shape) = 2
    /\ tensor.shape[1] > 1 /\ tensor.shape[2] > 1
    /\ tensor.data[1][2] # tensor.data[2][1]
    /\ rd.ok /\ vr.ok

\* the dimensions a forged header declares are all positive
AllPositive(g) == \A k \in 1..Len(g.dims) : g.dims[k].v > 0

\* some declared dimension is 2^24 or more
SomeHuge(g) == \E k \in 1..Len(g.dims) : g.dims[k].sh > 0

RECURSIVE ProdV(_)
ProdV(d) == IF d = <<>> THEN 1 ELSE Head(d).v * ProdV(Tail(d))

RECURSIVE SumSh(_)
SumSh(d) == IF d = <<>> THEN 0 ELSE Head(d).sh + SumSh(Tail(d))

HeaderLen(g) == 8 + 8 * Len(g.dims)

\* the file declares a rank >= 0 and positive dimensions of product n, and
\* holds fewer than n elements or is cut inside its header
Truncated(g) ==
    /\ g # NoForgery
    /\ g.rank.v >= 0
    /\ AllPositive(g)
    /\ SomeHuge(g) \/ g.keep < HeaderLen(g) + 4 * ProdV(g.dims)

\* C2: every read of a file that holds fewer elements than its header
\* declares, or that is cut inside the header, fails: neither check_binary
\* nor the verification read of main reports a tensor for it.
C2_TruncationRejected == Truncated(forged) => ~rd.ok /\ ~vr.ok

\* the least significant 24 bits of the bytes at offset off (from 0)
Low24(b, off) == b[off + 1] + 256 * b[off + 2] + 65536 * b[off + 3]

\* the 8 bytes at offset off hold the small non-negative value v
HoldsInt64(b, off, v) ==
    /\ Low24(b, off) = v
    /\ \A k \in 4..8 : b[off + k] = 0

\* the 4 bytes at offset off hold float x in IEEE-754 single layout: the
\* fraction and the low exponent bit in bits 0..23, the rest in the top byte
HoldsF32(b, off, x) ==
    /\ Low24(b, off) = (x.e % 2) * 8388608 + x.m
    /\ b[off + 4] = x.s * 128 + (x.e \div 2)

\* C3: the file save_tensor_binary writes holds the rank as an 8-byte
\* little-endian integer, then each dimension as one, then the elements as
\* 4 bytes each in row-major order, and nothing else: its length is
\* 8 + 8 * rank + 4 * product(shape).
C3_FileLayout ==
    Written1 =>
        LET r == Len(tensor.shape)
            n == Prod(tensor.shape)
        IN /\ Len(file) = 8 + 8 * r + 4 * n
           /\ HoldsInt64(file, 0, r)
           /\ \A k \in 1..r : HoldsInt64(file, 8 * k, tensor.shape[k])
           /\ \A k \in 1..n :
                HoldsF32(file, 8 + 8 * r + 4 * (k - 1), RowMajor(tensor)[k])

C3_Witness ==
    /\ Written1
    /\ Len(tensor.shape) = 2
    /\ Prod(tensor.shape) = MaxNumel
    /\ \E k \in 1..MaxNumel : RowMajor(tensor)[k].s = 1

\* C9: check_binary rejects every file whose declared shape has a dimension
\* that is zero or negative.
C9_DimensionValidated ==
    (forged # NoForgery /\ \E k \in 1..Len(forged.dims) : forged.dims[k].v <= 0)
        => ~rd.ok

\* the product of the declared dimensions, each v * 256^sh, is 2^63 or more
ProductOverflows(g) ==
    \/ SumSh(g.dims) >= 8
    \/ SumSh(g.dims) >= 5 /\ ProdV(g.dims) >= 2^(63 - 8 * SumSh(g.dims))

\* C10: for a file whose declared dimensions are positive with a product
\* beyond the 64-bit signed range, check_binary fails without consuming a
\* byte past the header; with the header whole it fails on the element
\* count alone (the read request is refused with OverflowError).
C10_OverflowRejected ==
    (/\ forged # NoForgery
     /\ forged.rank.v >= 0
     /\ AllPositive(forged)
     /\ ProductOverflows(forged)
     /\ rd # NotRun)
        => /\ ~rd.ok
           /\ rd.pos <= HeaderLen(forged)
           /\ forged.keep >= HeaderLen(forged) => rd.why = "OverflowError"

C10_Witness ==
    /\ forged # NoForgery
    /\ AllPositive(forged)
    /\ ProductOverflows(forged)
    /\ forged.keep > HeaderLen(forged)
    /\ rd.why = "OverflowError"

----------------------------------------------------------------------------
(* Properties of the export (checked under Spec) *)

\* the fixed packing order of the layer schema
SchemaOrder ==
    << "input_layernorm.weight",
       "post_attention_layernorm.weight",
       "self_attn.q_proj.weight",
       "self_attn.k_proj.weight",
       "self_attn.v_proj.weight",
       "self_attn.o_proj.weight",
       "self_attn.q_norm.weight",
       "self_attn.k_norm.weight",
       "mlp.gate_proj.weight",
       "mlp.up_proj.weight",
       "mlp.down_proj.weight" >>

\* the layers whose iteration of the loop has completed
DoneLayers == 0..(i - 1)

\* bytes before the elements of a rank-1 file of the running script
PackedHeaderLen == IF script = "pack" THEN 16 ELSE 12

\* the elements stored in the packed file of layer l
PackedElems(l) ==
    LET f == fs[LayerPath(l)]
    IN FromBuffer(SubSeq(f, PackedHeaderLen + 1, Len(f)))

\* segment k of layer l: the row-major elements of the k-th schema tensor
Segment(l, k) == RowMajor(state[Key(l, SchemaOrder[k])])

\* C4: the packed file of every completed layer holds the row-major
\* flattenings of the eleven tensors of that layer, concatenated in the
\* schema order, each exactly once and nothing else.
C4_PackingOrder ==
    \A l \in DoneLayers :
        /\ LayerPath(l) \in DOMAIN fs
        /\ PackedElems(l) =
              Segment(l, 1) \o Segment(l, 2) \o Segment(l, 3) \o Segment(l, 4)
                \o Segment(l, 5) \o Segment(l, 6) \o Segment(l, 7)
                \o Segment(l, 8) \o Segment(l, 9) \o Segment(l, 10)
                \o Segment(l, 11)

C4_Witness ==
    /\ i = 2
    /\ script = "libtorch"
    /\ pc = "done"

\* the element count of the k-th schema tensor, and the counts before it
SegLen(k) == Prod(ShapeOf(SchemaOrder[k]))

RECURSIVE SegOffset(_)
SegOffset(k) == IF k = 1 THEN 0 ELSE SegOffset(k - 1) + SegLen(k - 1)

SegTotal == SegOffset(11) + SegLen(11)

\* C5: in the packed file of every completed layer, segment k holds
\* product(shape_k) elements starting at the sum of the earlier products;
\* the file is a rank-1 header with the total length followed by exactly
\* that many elements, with no boundary or name metadata; the offsets
\* printed for layer 0 are these.
C5_OffsetLaw ==
    script = "pack" =>
        /\ \A l \in DoneLayers :
            LET f == fs[LayerPath(l)]
            IN /\ Len(f) = 16 + 4 * SegTotal
               /\ HoldsInt64(f, 0, 1)
               /\ HoldsInt64(f, 8, SegTotal)
               /\ \A k \in 1..11 :
                    SubSeq(PackedElems(l), SegOffset(k) + 1, SegOffset(k) + SegLen(k))
                        = Segment(l, k)
        /\ i > 0 =>
            /\ report.numel = SegTotal
            /\ report.total = SegTotal
            /\ Len(report.rows) = 11
            /\ \A k \in 1..11 :
                report.rows[k] = [numel |-> SegLen(k), offset |-> SegOffset(k)]

C5_Witness ==
    /\ script = "pack"
    /\ i = 2
    /\ report # <<>>

\* the required keys the state dict lacks
MissingKeys == RequiredKeys(numLayers) \ DOMAIN state

\* C6: when a required tensor is absent the export of either packer never
\* completes: main ends with KeyError at the first absent key, before the
\* prompt, having written no layer file at or after the layer of an absent
\* key.
C6_MissingAborts ==
    (MissingKeys # {} /\ script \in {"pack", "libtorch"}) =>
        /\ pc \notin {"verify", "done"}
        /\ tokens = <<>>
        /\ pc = "failed" /\ err # "IOError" => err = "KeyError"
        /\ pc # "failed" =>
            \/ pc \in {"embed", "norm"}
            \/ pc = "layers" /\ i < numLayers
        /\ \A key \in MissingKeys :
            /\ key[1] >= 0 => i <= key[1]
            /\ \A l \in 0..MaxLayers :
                l >= key[1] => LayerPath(l) \notin DOMAIN fs
            /\ key = EmbedKey => fs = <<>>
            /\ key = NormKey => DOMAIN fs \subseteq {EmbedPath}

C6_Witness ==
    /\ \E key \in MissingKeys : key[1] = 1
    /\ pc = "failed"
    /\ err = "KeyError"
    /\ LayerPath(0) \in DOMAIN fs

\* C7: every file at a final output path is complete: whatever stage the
\* export failed at, no path holds a partly written file.
C7_NoHalfFinished ==
    script = "pack" => \A q \in DOMAIN fs : CheckBinary(fs[q], TRUE).ok

\* the model variant whose layers have no q_norm / k_norm tensors
LacksQKNorm ==
    /\ numLayers > 0
    /\ MissingKeys = QKNormKeys(numLayers)

\* C8: for a variant without q_norm / k_norm the packer still writes each
\* packed layer, with HeadDim zeros at each of positions 7 and 8 of the
\* schema, so that later segments keep their offsets.
C8_Placeholders ==
    (LacksQKNorm /\ pc \in {"done", "failed"} /\ err # "IOError") =>
        /\ pc = "done"
        /\ \A l \in 0..(numLayers - 1) :
            /\ LayerPath(l) \in DOMAIN fs
            /\ Len(PackedElems(l)) = SegTotal
            /\ \A k \in {7, 8} : \A n \in 1..SegLen(k) :
                PackedElems(l)[SegOffset(k) + n] = F32(0, 0, 0)
            /\ \A k \in 9..11 :
                SubSeq(PackedElems(l), SegOffset(k) + 1, SegOffset(k) + SegLen(k))
                    = Segment(l, k)

----------------------------------------------------------------------------
(* Completeness and order of the export (checked under Spec) *)

\* the file the export is to leave for layer l
C11_LayerFile(l) == <<"output_dir", "layer_" \o ToString(l) \o "_packed.bin">>

\* the layer indices that have a packed file in file system f
C11_Packed(f) == {l \in 0..(MaxLayers + 2) : C11_LayerFile(l) \in DOMAIN f}

\* C11: the loop visits the layers 0, 1, ..., L-1 in ascending order and
\* packs each exactly once: while the loop runs the packed files are those of
\* 0..i-1, a packed file is written only for the index the loop is at and
\* only if it does not exist yet, the index only steps by one, and a
\* completed export holds the packed file of every layer below L, none for an
\* index at or above L, and the embedding and final-norm files.
C11_ExportOrder ==
    /\ [](/\ C11_Packed(fs) \subseteq 0..(numLayers - 1)
          /\ pc = "layers" => (C11_Packed(fs) = 0..(i - 1) /\ i <= numLayers)
          /\ pc \in {"verify", "done"} =>
                /\ i = numLayers
                /\ C11_Packed(fs) = 0..(numLayers - 1)
                /\ \A l \in 0..(numLayers - 1) :
                     Len(fs[C11_LayerFile(l)]) > PackedHeaderLen
                /\ {<<"output_dir", "model.embed_tokens.weight.bin">>,
                    <<"output_dir", "model.norm.weight.bin">>} \subseteq DOMAIN fs)
    /\ [][/\ i' \in {i, i + 1}
          /\ \A l \in 0..(MaxLayers + 2) :
                (/\ C11_LayerFile(l) \in DOMAIN fs'
                 /\ C11_LayerFile(l) \in DOMAIN fs => fs'[C11_LayerFile(l)] # fs[C11_LayerFile(l)])
                => (l = i /\ pc = "layers" /\ C11_LayerFile(l) \notin DOMAIN fs)]_vars

C11_Witness ==
    /\ pc = "done"
    /\ numLayers = MaxLayers
    /\ C11_Packed(fs) = 0..(MaxLayers - 1)

\* layers l1 and l2 hold the same eleven input tensors
C12_SameInputs(l1, l2) ==
    \A k \in 1..Len(SchemaOrder) :
        /\ Key(l1, SchemaOrder[k]) \in DOMAIN state
        /\ Key(l2, SchemaOrder[k]) \in DOMAIN state
        /\ state[Key(l1, SchemaOrder[k])] = state[Key(l2, SchemaOrder[k])]

\* C12: packing is deterministic: two packings of the same eleven tensors
\* (two iterations of the loop over layers that hold equal values, in equal
\* shapes) leave byte-identical packed files; the loop index, the path and
\* the files written before have no influence on the bytes.
C12_Determinism ==
    \A l1 \in DoneLayers : \A l2 \in DoneLayers :
        C12_SameInputs(l1, l2) =>
            /\ LayerPath(l1) \in DOMAIN fs
            /\ LayerPath(l2) \in DOMAIN fs
            /\ fs[LayerPath(l1)] = fs[LayerPath(l2)]

C12_Witness ==
    /\ i >= 2
    /\ C12_SameInputs(0, 1)
    /\ Len(fs[LayerPath(1)]) > PackedHeaderLen

----------------------------------------------------------------------------
(* The prompt file (checked under Spec) *)

\* the integer a stored float32 converts back to (int(x)); -1 if the float
\* is not a whole number below 2^31
C17_IntOfF32(x) ==
    IF x.e = 0 /\ x.m = 0 THEN 0
    ELSE IF x.s = 1 \/ x.e < 127 \/ x.e > 157 THEN -1
    ELSE LET sig == 8388608 + x.m
         IN IF x.e >= 150 THEN sig * 2^(x.e - 150)
            ELSE IF sig % 2^(150 - x.e) = 0 THEN sig \div 2^(150 - x.e) ELSE -1

\* bytes taken by the rank field of the running script's writer
C17_RankLen == IF script = "pack" THEN 8 ELSE 4

\* the prompt was encoded and its file written to the end
C17_PromptWritten == tokens # <<>> /\ pc \in {"verify", "done"}

----------------------------------------------------------------------------
(* One writer per output path (checked under Spec) *)

\* the path the next statement of the run opens for writing, <<>> if none
C18_Target ==
    CASE pc = "embed" -> <<"output_dir", "model.embed_tokens.weight.bin">>
      [] pc = "norm" -> <<"output_dir", "model.norm.weight.bin">>
      [] pc = "layers" /\ i < numLayers ->
            <<"output_dir", "layer_" \o ToString(i) \o "_packed.bin">>
      [] pc = "layers" /\ i >= numLayers ->
            <<IF script = "pack" THEN "output_dir" ELSE "output_dir.parent",
              "prompt.bin">>
      [] OTHER -> <<>>

\* C18: within one run every output path is opened for writing at most
\* once and by one source tensor only: the path the run is about to open
\* does not exist yet, and a file that has been written is never removed or
\* changed by a later step.
C18_SingleWriter ==
    /\ [](C18_Target \notin DOMAIN fs)
    /\ [][\A q \in DOMAIN fs : q \in DOMAIN fs' /\ fs'[q] = fs[q]]_vars

C18_Witness ==
    /\ pc = "done"
    /\ script = "pack"
    /\ numLayers = MaxLayers
    /\ Cardinality(DOMAIN fs) = MaxLayers + 3

----------------------------------------------------------------------------
(* The tensor a read accepts (checked under SpecIO) *)

\* C20: every tensor check_binary accepts has a declared rank >= 0, exactly
\* rank dimension values and as many elements as the product of its shape
\* (one element for rank 0); a file declaring a negative rank is not
\* accepted.
C20_AcceptedTensor ==
    rd.ok =>
        /\ ~rd.ndim.neg
        /\ rd.ndim = PyInt(Len(rd.shape))
        /\ rd.numel = PyProduct(rd.shape)
        /\ rd.numel = PyInt(Len(rd.data))
        /\ rd.shape = <<>> => Len(rd.data) = 1

----------------------------------------------------------------------------
(* test.py: the reference attention computation of layer 0.                *)
(* test.py is written for one configuration: 6 tokens, 16 query heads, 8   *)
(* key/value heads, head dimension 128, each key/value head repeated       *)
(* 2 = 16 / 8 times.  The model runs the same statements for a sequence of *)
(* T tokens and a checkpoint of hq query heads and hkv key/value heads,    *)
(* with those literals replaced by T, hq, hkv, AttnDim and hq div hkv.     *)
(* The batch axis of size 1 is left out.  Floats are symbolic: a value is  *)
(* the expression that computes it, and only the results IEEE-754 fixes    *)
(* for every operand are evaluated (x + -inf, x + 0, exp(-inf), 0 * x,     *)
(* 1 * x, the softmax of a single finite entry).                           *)

NegInf == [inf |-> -1]
Zero == [const |-> 0]
One == [const |-> 1]
NaN == [nan |-> TRUE]

\* element [t, c] of q_proj(hidden), k_proj(hidden) or v_proj(hidden)
Proj(name, t, c) == [proj |-> name, pos |-> t, col |-> c]

\* lines 17-19: a projection of the hidden state, [T, width]
Project(name, T, width) ==
    [t \in 1..T |-> [c \in 1..width |-> Proj(name, t, c)]]

\* x.view(1, T, H, d) of a [T, H * d] tensor
View(x, H, d) ==
    [t \in 1..Len(x) |->
        [h \in 1..H |-> [e \in 1..d |-> x[t][(h - 1) * d + e]]]]

\* the RMSNorm module with weight vector w applied to one vector
RMSNorm(w, vec) == [norm |-> w, of |-> vec]

\* a normalization whose scale depends on the place of the vector
HeadNormByPlace(x, w) ==
    [a \in 1..Len(x) |->
        [b \in 1..Len(x[a]) |-> RMSNorm(<<w, a, b>>, x[a][b])]]

\* q_norm(x), k_norm(x): every vector of the last axis is normalized with
\* the one weight vector of the module
HeadNorm(x, w) ==
    [a \in 1..Len(x) |-> [b \in 1..Len(x[a]) |-> RMSNorm(w, x[a][b])]]

\* x.transpose(1, 2): [T, H, d] -> [H, T, d] and back
Transpose12(x) ==
    [h \in 1..Len(x[1]) |-> [t \in 1..Len(x) |-> x[t][h]]]

RECURSIVE RepeatTiled(_, _)
\* x.repeat(r) along the head axis: the whole sequence of heads r times
RepeatTiled(x, r) == IF r <= 0 THEN <<>> ELSE x \o RepeatTiled(x, r - 1)

RECURSIVE RepeatInterleave(_, _)
\* x.repeat_interleave(r, dim=1): each head r consecutive times
RepeatInterleave(x, r) ==
    IF x = <<>> THEN <<>>
    ELSE [n \in 1..r |-> Head(x)] \o RepeatInterleave(Tail(x), r)

\* one entry of matmul(q, k^T) / (128 ** 0.5)
Dot(qv, kv) == [dot |-> <<qv, kv>>, over |-> "sqrt(head_dim)"]

\* matmul broadcasts the head axes: they must be equal, or one of them 1
MatmulOk(x, y) == Len(x) = Len(y) \/ Len(x) = 1 \/ Len(y) = 1

\* line 40: scores of q [Hq, T, d] against k [Hk, T, d]
Scores(x, y) ==
    [h \in 1..(IF Len(x) = 1 THEN Len(y) ELSE Len(x)) |->
        LET xh == x[IF Len(x) = 1 THEN 1 ELSE h]
            yh == y[IF Len(y) = 1 THEN 1 ELSE h]
        IN [a \in 1..Len(xh) |-> [b \in 1..Len(yh) |-> Dot(xh[a], yh[b])]]]

\* torch.tril(torch.full((n, n), -inf), diagonal)
Tril(n, diagonal) ==
    [a \in 1..n |-> [b \in 1..n |-> IF b - a <= diagonal THEN NegInf ELSE Zero]]

\* a mask that also covers the main diagonal
TriuFromMain(n, diagonal) ==
    [a \in 1..n |-> [b \in 1..n |-> IF b - a >= 0 THEN NegInf ELSE Zero]]

\* line 43: torch.triu(torch.full((n, n), -inf), diagonal)
Triu(n, diagonal) ==
    [a \in 1..n |-> [b \in 1..n |-> IF b - a >= diagonal THEN NegInf ELSE Zero]]

\* line 44: scores + mask, the mask broadcast over the heads
AddMask(sc, mask) ==
    [h \in 1..Len(sc) |->
        [a \in 1..Len(sc[h]) |->
            [b \in 1..Len(sc[h][a]) |->
                IF mask[a][b] = NegInf THEN NegInf ELSE sc[h][a][b]]]]

\* softmax of one row: exp(-inf) = 0, so a masked entry gets weight 0; a row
\* with one finite entry s gives exp(s - s) / exp(s - s) = 1; a row without
\* a finite entry gives nan
Softmax(row) ==
    LET fin == SelectSeq(row, LAMBDA s : s # NegInf)
    IN [b \in 1..Len(row) |->
          IF fin = <<>> THEN NaN
          ELSE IF row[b] = NegInf THEN Zero
          ELSE IF Len(fin) = 1 THEN One
          ELSE [exp |-> row[b], sum |-> fin]]

\* line 46: torch.softmax(scores, dim=-1)
SoftmaxLast(sc) ==
    [h \in 1..Len(sc) |-> [a \in 1..Len(sc[h]) |-> Softmax(sc[h][a])]]

\* one entry of matmul(probs, v): sum_b w[b] * xs[b]; terms of weight 0 add
\* nothing and a single term of weight 1 is the value itself
Mix(w, xs) ==
    LET idx == SelectSeq([b \in 1..Len(w) |-> b], LAMBDA b : w[b] # Zero)
    IN IF \E b \in 1..Len(w) : w[b] = NaN THEN NaN
       ELSE IF Len(idx) = 1 /\ w[idx[1]] = One THEN xs[idx[1]]
       ELSE [sum |-> [n \in 1..Len(idx) |-> <<w[idx[n]], xs[idx[n]]>>]]

\* line 49: context = matmul(probs, v), [H, T, d]
MatmulPV(p, val) ==
    [h \in 1..Len(p) |->
        [a \in 1..Len(p[h]) |->
            [e \in 1..Len(val[h][1]) |->
                Mix(p[h][a], [b \in 1..Len(val[h]) |-> val[h][b][e]])]]]

\* lines 52-53: context.transpose(1, 2).reshape(1, T, H * d)
ContextFlat(ctx) ==
    LET H == Len(ctx)
        T == Len(ctx[1])
        d == Len(ctx[1][1])
    IN [t \in 1..T |->
          [c \in 1..(H * d) |-> ctx[((c - 1) \div d) + 1][t][((c - 1) % d) + 1]]]

\* line 60: o_proj(context_flat), [T, Hidden]
OProj(flat) ==
    [t \in 1..Len(flat) |->
        [c \in 1..Hidden |-> [proj |-> "o_proj", of |-> flat[t], col |-> c]]]

\* lines 40-60 as one function of the head-major q, k, v
Attend(x, y, val) ==
    OProj(ContextFlat(MatmulPV(
        SoftmaxLast(AddMask(Scores(x, y), Triu(Len(x[1]), 1))), val)))

\* the head counts of the checkpoint: every hkv <= hq up to MaxHeads, and
\* the counts of Qwen3-0.6B that test.py is written for
HeadConfigs ==
    {c \in (1..MaxHeads) \X (1..MaxHeads) : c[2] <= c[1]}
        \cup {<<TestHq, TestHkv>>}

InitAttn ==
    /\ IOIdle
    /\ ExportIdle
    /\ \E T \in 1..MaxSeqLen : \E c \in HeadConfigs :
        attn = [NoAttention EXCEPT !.pc = "project", !.T = T,
                                   !.hq = c[1], !.hkv = c[2]]

\* lines 14-19: the three projections of the normalized embeddings
AttnProject ==
    /\ attn.pc = "project"
    /\ attn' = [attn EXCEPT
                  !.q = Project("q_proj", attn.T, attn.hq * AttnDim),
                  !.k = Project("k_proj", attn.T, attn.hkv * AttnDim),
                  !.v = Project("v_proj", attn.T, attn.hkv * AttnDim),
                  !.pc = "view"]
    /\ UNCHANGED <<ioVars, exVars>>

\* lines 22-24: reshape to [T, heads, head_dim]
AttnView ==
    /\ attn.pc = "view"
    /\ attn' = [attn EXCEPT
                  !.q = View(attn.q, attn.hq, AttnDim),
                  !.k = View(attn.k, attn.hkv, AttnDim),
                  !.v = View(attn.v, attn.hkv, AttnDim),
                  !.pc = "norm"]
    /\ UNCHANGED <<ioVars, exVars>>

\* lines 27-28: QK norm
AttnQKNorm ==
    /\ attn.pc = "norm"
    /\ attn' = [attn EXCEPT
                  !.q = HeadNorm(attn.q, "q_norm"),
                  !.k = HeadNorm(attn.k, "k_norm"),
                  !.pc = "transpose"]
    /\ UNCHANGED <<ioVars, exVars>>

\* lines 31-33: transpose to [heads, T, head_dim]
AttnTranspose ==
    /\ attn.pc = "transpose"
    /\ attn' = [attn EXCEPT
                  !.q = Transpose12(attn.q),
                  !.k = Transpose12(attn.k),
                  !.v = Transpose12(attn.v),
                  !.pc = "repeat"]
    /\ UNCHANGED <<ioVars, exVars>>

\* lines 36-37: GQA repeat (2 = 16 / 8 in test.py)
AttnRepeat ==
    /\ attn.pc = "repeat"
    /\ attn' = [attn EXCEPT
                  !.k = RepeatInterleave(attn.k, attn.hq \div attn.hkv),
                  !.v = RepeatInterleave(attn.v, attn.hq \div attn.hkv),
                  !.pc = "scores"]
    /\ UNCHANGED <<ioVars, exVars>>

\* line 40: the scores; matmul raises RuntimeError when the head axes of q
\* and k cannot be broadcast
AttnScores ==
    /\ attn.pc = "scores"
    /\ attn' = IF MatmulOk(attn.q, attn.k)
               THEN [attn EXCEPT !.scores = Scores(attn.q, attn.k), !.pc = "mask"]
               ELSE [attn EXCEPT !.pc = "failed", !.err = "RuntimeError"]
    /\ UNCHANGED <<ioVars, exVars>>

\* lines 43-44: the causal mask
AttnMask ==
    /\ attn.pc = "mask"
    /\ attn' = [attn EXCEPT
                  !.scores = AddMask(attn.scores, Triu(attn.T, 1)),
                  !.pc = "softmax"]
    /\ UNCHANGED <<ioVars, exVars>>

\* line 46
AttnSoftmax ==
    /\ attn.pc = "softmax"
    /\ attn' = [attn EXCEPT !.probs = SoftmaxLast(attn.scores), !.pc = "context"]
    /\ UNCHANGED <<ioVars, exVars>>

\* line 49
AttnContext ==
    /\ attn.pc = "context"
    /\ attn' = [attn EXCEPT !.context = MatmulPV(attn.probs, attn.v),
                            !.pc = "output"]
    /\ UNCHANGED <<ioVars, exVars>>

\* lines 52-60: flatten the heads and apply the output projection
AttnOutput ==
    /\ attn.pc = "output"
    /\ attn' = [attn EXCEPT !.output = OProj(ContextFlat(attn.context)),
                            !.pc = "done"]
    /\ UNCHANGED <<ioVars, exVars>>

NextAttn ==
    \/ AttnProject
    \/ AttnView
    \/ AttnQKNorm
    \/ AttnTranspose
    \/ AttnRepeat
    \/ AttnScores
    \/ AttnMask
    \/ AttnSoftmax
    \/ AttnContext
    \/ AttnOutput

SpecAttn == InitAttn /\ [][NextAttn]_vars

----------------------------------------------------------------------------
(* Properties of the reference attention (checked under SpecAttn) *)

\* the vector of head n (from 0) at position t (from 1), cut from the
\* columns n * d + 1 .. n * d + d of a projection
C13_HeadCols(name, t, n) ==
    [e \in 1..AttnDim |-> Proj(name, t, n * AttnDim + e)]

\* the key/value heads have been expanded, for head counts that divide
C13_Expanded ==
    /\ attn.pc \in {"scores", "mask", "softmax", "context", "output", "done"}
    /\ attn.hq % attn.hkv = 0

\* C13: after head expansion, with g = Hq / Hkv, query head h is paired
\* with key/value head floor(h / g) for every h in 0..Hq-1, for keys, values
\* and scores, and not with head h mod Hkv wherever the two differ; for
\* Hq = 16, Hkv = 8 they differ for some h.
C13_GQAGrouping ==
    C13_Expanded =>
        LET g == attn.hq \div attn.hkv
        IN /\ Len(attn.q) = attn.hq
           /\ Len(attn.k) = attn.hq
           /\ Len(attn.v) = attn.hq
           /\ \A h \in 0..(attn.hq - 1) : \A t \in 1..attn.T :
                /\ attn.q[h + 1][t] = RMSNorm("q_norm", C13_HeadCols("q_proj", t, h))
                /\ attn.k[h + 1][t]
                     = RMSNorm("k_norm", C13_HeadCols("k_proj", t, h \div g))
                /\ attn.v[h + 1][t] = C13_HeadCols("v_proj", t, h \div g)
                /\ (h \div g # h % attn.hkv) =>
                     /\ attn.k[h + 1][t]
                          # RMSNorm("k_norm", C13_HeadCols("k_proj", t, h % attn.hkv))
                     /\ attn.v[h + 1][t] # C13_HeadCols("v_proj", t, h % attn.hkv)
                /\ attn.pc = "mask" =>
                     \A b \in 1..attn.T :
                        attn.scores[h + 1][t][b] =
                            Dot(RMSNorm("q_norm", C13_HeadCols("q_proj", t, h)),
                                RMSNorm("k_norm", C13_HeadCols("k_proj", b, h \div g)))
           /\ (attn.hq = 16 /\ attn.hkv = 8) =>
                \E h \in 0..(attn.hq - 1) : h \div g # h % attn.hkv

C13_Witness ==
    /\ attn.pc = "mask"
    /\ attn.hq = 16
    /\ attn.hkv = 8
    /\ attn.T >= 2

\* C14: for every head and every pair of positions a < b the masked score
\* is negative infinity and the attention weight from a to b is exactly 0;
\* the scores at b <= a are left as computed; row 0 gives all its weight to
\* position 0.
C14_CausalMask ==
    /\ attn.pc \in {"softmax", "context", "output", "done"} =>
        \A h \in 1..attn.hq : \A a \in 1..attn.T : \A b \in 1..attn.T :
            /\ a < b => attn.scores[h][a][b] = NegInf
            /\ b <= a => attn.scores[h][a][b] = Dot(attn.q[h][a], attn.k[h][b])
    /\ attn.pc \in {"context", "output", "done"} =>
        \A h \in 1..attn.hq :
            /\ \A a \in 1..attn.T : \A b \in 1..attn.T :
                a < b => attn.probs[h][a][b] = Zero
            /\ attn.probs[h][1] = [b \in 1..attn.T |-> IF b = 1 THEN One ELSE Zero]

C14_Witness ==
    /\ attn.pc = "done"
    /\ attn.T = MaxSeqLen
    /\ attn.hq = 16
    /\ attn.probs[16][1][MaxSeqLen] = Zero

\* K as it would be with the heads repeated first and each repeated head
\* normalized afterwards with the same k_norm vector
C15_RepeatThenNorm ==
    HeadNorm(
        RepeatInterleave(
            Transpose12(View(Project("k_proj", attn.T, attn.hkv * AttnDim),
                             attn.hkv, AttnDim)),
            attn.hq \div attn.hkv),
        "k_norm")

\* normalization has been applied when the heads are repeated and when a
\* score is computed: right after the QK-norm step Q and K hold the
\* normalized vectors of the Hq and Hkv heads and no score exists, and every
\* vector that enters a score is a normalized one
C15_NormFirst ==
    /\ attn.pc \in {"project", "view", "norm", "transpose", "repeat", "scores"} =>
        attn.scores = <<>>
    /\ attn.pc = "transpose" =>
        /\ \A t \in 1..attn.T :
            /\ Len(attn.q[t]) = attn.hq
            /\ Len(attn.k[t]) = attn.hkv
            /\ \A h \in 1..attn.hq :
                attn.q[t][h] = RMSNorm("q_norm", C13_HeadCols("q_proj", t, h - 1))
            /\ \A h \in 1..attn.hkv :
                attn.k[t][h] = RMSNorm("k_norm", C13_HeadCols("k_proj", t, h - 1))
    /\ attn.pc \in {"mask", "softmax", "context", "output", "done"} =>
        \A h \in 1..attn.hq : \A t \in 1..attn.T :
            /\ "norm" \in DOMAIN attn.q[h][t]
            /\ "norm" \in DOMAIN attn.k[h][t]

\* C15 as stated: normalization precedes head repetition and the scores,
\* and repeating the K heads first and normalizing them afterwards gives a
\* different output.
C15_OrderMatters ==
    /\ C15_NormFirst
    /\ attn.pc = "done" =>
        attn.output # Attend(attn.q, C15_RepeatThenNorm, attn.v)

\* C15, amended: normalization precedes head repetition and the scores, and
\* the order of per-head normalization and head repetition makes no
\* difference: repeating the K heads first and normalizing each repeated
\* head with the same vector gives the same K and the same output.
C15_NormCommutes ==
    /\ C15_NormFirst
    /\ attn.pc \in {"scores", "mask", "softmax", "context", "output", "done"} =>
        attn.k = C15_RepeatThenNorm
    /\ attn.pc = "done" =>
        attn.output = Attend(attn.q, C15_RepeatThenNorm, attn.v)

C15_Witness ==
    /\ attn.pc = "done"
    /\ attn.hq = 4
    /\ attn.hkv = 2
    /\ attn.T = 2
    /\ attn.output = Attend(attn.q, C15_RepeatThenNorm, attn.v)

\* C16: when Hq is not a multiple of Hkv the computation is rejected with a
\* configuration error before any projection, reshape or score is computed,
\* and never fails later through a shape mismatch.
C16_HeadCountValidated ==
    attn.hq % attn.hkv # 0 =>
        /\ attn.q = <<>> /\ attn.k = <<>> /\ attn.v = <<>>
        /\ attn.scores = <<>>
        /\ attn.pc \in {"project", "failed"}
        /\ attn.pc = "failed" => attn.err = "ConfigurationError"

----------------------------------------------------------------------------
(* Agreement of the two writers (checked under Spec) *)

\* the top-level files the run has written to the end, with their tensors
C21_Complete ==
    {f \in {<<EmbedPath, EmbedKey>>, <<NormPath, NormKey>>} :
        /\ f[1] \in DOMAIN fs
        /\ f[2] \in DOMAIN state
        /\ \/ pc \in {"layers", "verify", "done"}
           \/ pc = "norm" /\ f[1] = EmbedPath}

\* C21: the file either packer writes for a tensor is byte for byte the file
\* save_tensor_binary writes for it (8-byte rank, 8-byte dimensions, float32
\* elements), and check_binary reads it back with the rank, shape and
\* elements of that tensor.
C21_WritersAgree ==
    \A f \in C21_Complete :
        LET t == state[f[2]]
            r == Len(t.shape)
        IN /\ fs[f[1]] = SaveTensorBinary(t)
           /\ Len(fs[f[1]]) = 8 + 8 * r + 4 * Prod(t.shape)
           /\ HoldsInt64(fs[f[1]], 0, r)
           /\ ReadBack(CheckBinary(fs[f[1]], TRUE), t)
           /\ chk # <<>> => chk[f[1]]

====
